---- MODULE Spec2Model ----
(***************************************************************************)
(* Model of qcomp/gate.py: dense matrix gates (MGate) with their           *)
(* composition operators, the oracle builder construct_unitary_F, the      *)
(* index-permutation gate LazyGate and the closed-form appliers LazyCNOT   *)
(* and LazyNOT.                                                            *)
(*                                                                         *)
(* Numbers.  Every amplitude the predefined gates can produce is an        *)
(* integer divided by a power of sqrt(2).  An array is kept as             *)
(* [e |-> integer entries, s |-> k], standing for e / sqrt(2)^k, in the    *)
(* canonical form produced by NormM / NormV, so that equality of arrays is *)
(* equality of the numbers they stand for.  Floating-point rounding is not *)
(* modelled.                                                               *)
(***************************************************************************)
EXTENDS Integers, Sequences, FiniteSets, TLC

VARIABLES x, y, nops, lz, heap, reg, out, last

vars == <<x, y, nops, lz, heap, reg, out, last>>

\* ------------------------------------------------------------------ bounds
\* largest register (in qubits) a run builds
MaxN == 3
\* most composition operations applied to the gate slots after a reset
MaxOps == 2
\* largest exponent given to **
MaxPow == 3
\* longest input bit string of an oracle definition
MaxL == 2
\* longest target list drawn with positions outside the register or repeated
MaxBad == 2
\* most calls chained on one register, each taking the state the last returned
MaxCalls == 2

\* --------------------------------------------------------------- arithmetic
RECURSIVE Pow2(_)
Pow2(n) == IF n <= 0 THEN 1 ELSE 2 * Pow2(n - 1)

\* bit q of the non-negative integer b: (b & (1 << q)) >> q
Bit(b, q) == (b \div Pow2(q)) % 2

RECURSIVE SumTo(_, _)
SumTo(f, n) == IF n = 0 THEN 0 ELSE f[n] + SumTo(f, n - 1)

\* the n-element sequence f written out element by element
Tup(f, n) == SubSeq(f, 1, n)

Rows(M) == Len(M.e)
Cols(M) == Len(M.e[1])

AllZeroM(e) == \A i \in 1..Len(e) : \A j \in 1..Len(e[i]) : e[i][j] = 0
AllEvenM(e) == \A i \in 1..Len(e) : \A j \in 1..Len(e[i]) : e[i][j] % 2 = 0

RECURSIVE NormM(_)
NormM(M) ==
    IF AllZeroM(M.e) THEN [e |-> M.e, s |-> 0]
    ELSE IF M.s >= 2 /\ AllEvenM(M.e)
         THEN NormM([e |-> Tup([i \in 1..Len(M.e) |->
                              Tup([j \in 1..Len(M.e[i]) |-> M.e[i][j] \div 2], Len(M.e[i]))],
                              Len(M.e)),
                     s |-> M.s - 2])
         ELSE M

AllZeroV(e) == \A i \in 1..Len(e) : e[i] = 0
AllEvenV(e) == \A i \in 1..Len(e) : e[i] % 2 = 0

RECURSIVE NormV(_)
NormV(v) ==
    IF AllZeroV(v.e) THEN [e |-> v.e, s |-> 0]
    ELSE IF v.s >= 2 /\ AllEvenV(v.e)
         THEN NormV([e |-> Tup([i \in 1..Len(v.e) |-> v.e[i] \div 2], Len(v.e)),
                     s |-> v.s - 2])
         ELSE v

\* an exception raised by the call
Raised == [ok |-> FALSE]

\* np.matmul(A, B) on two 2-D arrays; numpy raises ValueError when the inner
\* dimensions differ
matmul(A, B) ==
    IF Cols(A) # Rows(B) THEN Raised
    ELSE [ok |-> TRUE,
          m  |-> NormM([e |-> Tup([i \in 1..Rows(A) |-> Tup([j \in 1..Cols(B) |->
                                 SumTo([k \in 1..Cols(A) |-> A.e[i][k] * B.e[k][j]],
                                       Cols(A))], Cols(B))], Rows(A)),
                        s |-> A.s + B.s])]

\* np.kron(A, B) on two 2-D arrays
kron(A, B) ==
    NormM([e |-> Tup([i \in 1..(Rows(A) * Rows(B)) |-> Tup([j \in 1..(Cols(A) * Cols(B)) |->
                    A.e[((i - 1) \div Rows(B)) + 1][((j - 1) \div Cols(B)) + 1]
                  * B.e[((i - 1) % Rows(B)) + 1][((j - 1) % Cols(B)) + 1]],
                  Cols(A) * Cols(B))], Rows(A) * Rows(B)),
           s |-> A.s + B.s])

\* matrix.dot(vector) for a 2-D array and a 1-D array; numpy raises ValueError
\* when the matrix has not as many columns as the vector has entries
dot(M, v) ==
    IF Cols(M) # Len(v.e) THEN Raised
    ELSE [ok |-> TRUE,
          v  |-> NormV([e |-> Tup([i \in 1..Rows(M) |->
                                 SumTo([k \in 1..Cols(M) |-> M.e[i][k] * v.e[k]],
                                       Cols(M))], Rows(M)),
                        s |-> M.s + v.s])]

\* np.eye(n)
eye(n) ==
    [e |-> Tup([i \in 1..n |-> Tup([j \in 1..n |-> IF i = j THEN 1 ELSE 0], n)], n), s |-> 0]

\* --------------------------------------------------------------- registers
\* QReg(nbits, state): the register collaborator, a qubit count and a state
\* vector; len(qreg) is its qubit count
QReg(n, state) == [nbits |-> n, state |-> state]

\* the basis state |b> of an n-qubit register, b in 0..2^n-1
BasisVec(n, b) ==
    [e |-> Tup([i \in 1..Pow2(n) |-> IF i = b + 1 THEN 1 ELSE 0], Pow2(n)), s |-> 0]

\* a superposition with pairwise different amplitudes
RampVec(n) == [e |-> Tup([i \in 1..Pow2(n) |-> i], Pow2(n)), s |-> 0]

TestVecs(n) == {BasisVec(n, b) : b \in 0..(Pow2(n) - 1)} \cup {RampVec(n)}

TestRegs(n) == {QReg(n, v) : v \in TestVecs(n)}

\* ------------------------------------------------------------- dense gates
NoGate == [ok |-> FALSE]

\* MGate.__init__ without its second assertion
MGate_noDimCheck(matrix, qreg_size) ==
    IF Rows(matrix) # Cols(matrix) THEN NoGate
    ELSE [ok |-> TRUE, matrix |-> matrix, qreg_size |-> qreg_size]

\* MGate.__init__: both assertions, then the two fields
MGate(matrix, qreg_size) ==
    IF Rows(matrix) # Cols(matrix) THEN NoGate
    ELSE IF Pow2(qreg_size) # Rows(matrix) THEN NoGate
    ELSE [ok |-> TRUE, matrix |-> matrix, qreg_size |-> qreg_size]

\* MGate.__add__
MGate_add(self, other) ==
    LET p == matmul(self.matrix, other.matrix)
    IN  IF p.ok THEN MGate(p.m, self.qreg_size) ELSE NoGate

\* MGate.__mul__ with the factors of the Kronecker product exchanged
MGate_mul_swapped(self, other) ==
    IF ~other.ok THEN NoGate
    ELSE MGate(kron(other.matrix, self.matrix), self.qreg_size + other.qreg_size)

\* MGate.__mul__
MGate_mul(self, other) ==
    IF ~other.ok THEN NoGate
    ELSE MGate(kron(self.matrix, other.matrix), self.qreg_size + other.qreg_size)

\* MGate.__pow__ written with + in place of *
RECURSIVE MGate_pow_seq(_, _)
MGate_pow_seq(self, i) ==
    IF i = 1 THEN self
    ELSE IF i < 1 THEN NoGate
    ELSE MGate_add(self, MGate_pow_seq(self, i - 1))

\* MGate.__pow__; self*self**(i-1) parses as self * (self ** (i-1)).  For
\* i < 1 the recursion never reaches i == 1 and ends in RecursionError.
RECURSIVE MGate_pow(_, _)
MGate_pow(self, i) ==
    IF i = 1 THEN self
    ELSE IF i < 1 THEN NoGate
    ELSE MGate_mul(self, MGate_pow(self, i - 1))

\* MGate.apply: no size assertion of its own; the product raises when the
\* state vector has not 2^qreg_size entries
MGate_apply(self, qreg) ==
    LET p == dot(self.matrix, qreg.state)
    IN  IF p.ok THEN [ok |-> TRUE, qreg |-> QReg(qreg.nbits, p.v)] ELSE Raised

\* the predefined gate instances
I == MGate(eye(2), 1)
H == MGate([e |-> <<<<1, 1>>, <<1, -1>>>>, s |-> 1], 1)
NOT == MGate([e |-> <<<<0, 1>>, <<1, 0>>>>, s |-> 0], 1)
CNOT == MGate([e |-> <<<<1,0,0,0>>, <<0,1,0,0>>, <<0,0,0,1>>, <<0,0,1,0>>>>, s |-> 0], 2)
CNOT_r == MGate([e |-> <<<<1,0,0,0>>, <<0,0,0,1>>, <<0,0,1,0>>, <<0,1,0,0>>>>, s |-> 0], 2)
cc_array ==
    [e |-> Tup([i \in 1..8 |-> Tup([j \in 1..8 |->
              IF i >= 7 /\ j >= 7 THEN (IF i = j THEN 0 ELSE 1)
              ELSE (IF i = j THEN 1 ELSE 0)], 8)], 8),
     s |-> 0]
CCNOT == MGate(cc_array, 3)
SWAP == MGate([e |-> <<<<1,0,0,0>>, <<0,0,1,0>>, <<0,1,0,0>>, <<0,0,0,1>>>>, s |-> 0], 2)

Predefined == {I, H, NOT, CNOT, CNOT_r, SWAP, CCNOT}

\* ------------------------------------------------ dense gates: the machine
\* A caller holds two dense gates x and y, builds gates from raw matrices and
\* composes the two; `last` records the latest call and what it returned.

\* an r x c array with ones on its main diagonal
RawMat(r, c) ==
    [e |-> Tup([i \in 1..r |-> Tup([j \in 1..c |-> IF i = j THEN 1 ELSE 0], c)], r), s |-> 0]

RawDims == 1..(MaxN + 1)

RawMats == {RawMat(r, c) : r \in RawDims, c \in RawDims} \cup {H.matrix, SWAP.matrix}

InitDense ==
    /\ x \in Predefined
    /\ y \in Predefined
    /\ nops = 0
    /\ last = [op |-> "load"]
    /\ lz = NoGate
    /\ heap = <<>>
    /\ reg = 0
    /\ out = 0

\* the caller takes a predefined gate as the second operand
Load ==
    /\ y' \in Predefined
    /\ last' = [op |-> "load"]
    /\ UNCHANGED <<x, nops, lz, heap, reg, out>>

\* the caller exchanges the two slots
Exchange ==
    /\ x' = y
    /\ y' = x
    /\ last' = [op |-> "load"]
    /\ UNCHANGED <<nops, lz, heap, reg, out>>

\* MGate(matrix, qreg_size), before any composition
Construct ==
    \E m \in RawMats, k \in 0..MaxN :
        LET g == MGate(m, k)
        IN  /\ nops = 0
            /\ last' = [op |-> "init", matrix |-> m, k |-> k, ret |-> g]
            /\ x' = IF g.ok THEN g ELSE x
            /\ UNCHANGED <<y, nops, lz, heap, reg, out>>

\* x + y
Add ==
    /\ nops < MaxOps
    /\ LET g == MGate_add(x, y)
       IN  /\ last' = [op |-> "add", a |-> x, b |-> y, ret |-> g]
           /\ x' = IF g.ok THEN g ELSE x
    /\ nops' = nops + 1
    /\ UNCHANGED <<y, lz, heap, reg, out>>

\* x * y
Mul ==
    /\ nops < MaxOps
    /\ x.qreg_size + y.qreg_size <= MaxN
    /\ LET g == MGate_mul(x, y)
       IN  /\ last' = [op |-> "mul", a |-> x, b |-> y, ret |-> g]
           /\ x' = IF g.ok THEN g ELSE x
    /\ nops' = nops + 1
    /\ UNCHANGED <<y, lz, heap, reg, out>>

\* x ** i
Power ==
    \E i \in 1..MaxPow :
        /\ nops < MaxOps
        /\ x.qreg_size * i <= MaxN
        /\ LET g == MGate_pow(x, i)
           IN  /\ last' = [op |-> "pow", a |-> x, i |-> i, ret |-> g]
               /\ x' = IF g.ok THEN g ELSE x
        /\ nops' = nops + 1
        /\ UNCHANGED <<y, lz, heap, reg, out>>

NextDense == Load \/ Exchange \/ Construct \/ Add \/ Mul \/ Power

SpecDense == InitDense /\ [][NextDense]_vars

\* ---------------------------------------------------- dense gates: claims
\* a / sqrt(2)^sa and b / sqrt(2)^sb are the same number
AmpEq(a, sa, b, sb) ==
    \/ a = 0 /\ b = 0
    \/ sa >= sb /\ (sa - sb) % 2 = 0 /\ a = b * Pow2((sa - sb) \div 2)
    \/ sb > sa /\ (sb - sa) % 2 = 0 /\ b = a * Pow2((sb - sa) \div 2)

ShapeOK(g) ==
    /\ g.ok
    /\ Rows(g.matrix) = Pow2(g.qreg_size)
    /\ \A i \in 1..Rows(g.matrix) : Len(g.matrix.e[i]) = Pow2(g.qreg_size)

IsIdentity(g) == g.matrix = eye(Pow2(g.qreg_size))

\* gate.apply repeated t times on R
RECURSIVE ApplyTimes(_, _, _)
ApplyTimes(g, R, t) ==
    IF t = 0 THEN [ok |-> TRUE, qreg |-> R]
    ELSE LET r == ApplyTimes(g, R, t - 1)
         IN  IF r.ok THEN MGate_apply(g, r.qreg) ELSE r

\* product over the i base-2^k digits of r and c of the entries of A
RECURSIVE DigitProd(_, _, _, _)
DigitProd(A, r, c, i) ==
    IF i = 0 THEN 1
    ELSE LET D == Rows(A.matrix)
         IN  A.matrix.e[(r % D) + 1][(c % D) + 1] * DigitProd(A, r \div D, c \div D, i - 1)

\* C2: the gate A + B has the matrix B_matrix . A_matrix, and applying it to a
\* register R gives B.apply(A.apply(R)), for dense gates A, B over the same
\* qubits.
C2_SequentialOrder ==
    (last.op = "add" /\ last.ret.ok) =>
        /\ last.ret.matrix = matmul(last.b.matrix, last.a.matrix).m
        /\ \A R \in TestRegs(last.a.qreg_size) :
              MGate_apply(last.ret, R) = MGate_apply(last.b, MGate_apply(last.a, R).qreg)

C4_ParallelComposition ==
    last.op = "mul" =>
        LET A == last.a
            B == last.b
            G == last.ret
            k1 == last.a.qreg_size
            k2 == last.b.qreg_size
        IN  /\ G.ok
            /\ G.qreg_size = k1 + k2
            /\ \A xi, xo \in 0..(Pow2(k1) - 1) : \A yi, yo \in 0..(Pow2(k2) - 1) :
                  LET r == MGate_apply(G, QReg(k1 + k2, BasisVec(k1 + k2, xi * Pow2(k2) + yi)))
                  IN  /\ r.ok
                      /\ AmpEq(r.qreg.state.e[xo * Pow2(k2) + yo + 1], r.qreg.state.s,
                               A.matrix.e[xo + 1][xi + 1] * B.matrix.e[yo + 1][yi + 1],
                               A.matrix.s + B.matrix.s)
            /\ (A = MGate_mul(H, I) /\ B = H) =>
                  MGate_apply(G, QReg(3, BasisVec(3, 3))) =
                      [ok |-> TRUE,
                       qreg |-> QReg(3, [e |-> <<0, 0, 1, -1, 0, 0, 1, -1>>, s |-> 2])]
            /\ (IsIdentity(A) /\ IsIdentity(B)) =>
                  \A R \in TestRegs(k1 + k2) : MGate_apply(G, R) = [ok |-> TRUE, qreg |-> R]

C4_Witness ==
    last.op = "mul" /\ last.a = MGate_mul(H, I) /\ last.b = H /\ last.ret.ok

\* C8: MGate(matrix, k) fails for a matrix that is not square or not of
\* dimension 2^k, and every dense gate built by constructions, +, * and **
\* has a square matrix of dimension 2^qreg_size.
C8_DenseShapeInvariant ==
    /\ ShapeOK(x)
    /\ ShapeOK(y)
    /\ last.op = "init" =>
          ((Rows(last.matrix) # Cols(last.matrix) \/ Rows(last.matrix) # Pow2(last.k))
              => ~last.ret.ok)
    /\ (last.op \in {"init", "add", "mul", "pow"} /\ last.ret.ok) => ShapeOK(last.ret)

C8_Witness ==
    last.op = "mul" /\ last.a.qreg_size = 0 /\ last.b = H /\ nops = 2 /\ last.ret.ok

\* ------------------------------------------------------------ oracle gates
\* A bit string is a sequence of 0/1, first character first.

\* the n-character binary label of the index j
RECURSIVE BitString(_, _)
BitString(n, j) == IF n = 0 THEN <<>> ELSE Append(BitString(n - 1, j \div 2), j % 2)

\* QReg(n).bases: the basis labels of an n-qubit register in index order
Bases(n) == Tup([j \in 1..Pow2(n) |-> BitString(n, j - 1)], Pow2(n))

\* int(s, 2)
RECURSIVE IntOf(_)
IntOf(s) == IF Len(s) = 0 THEN 0 ELSE 2 * IntOf(SubSeq(s, 1, Len(s) - 1)) + s[Len(s)]

\* base in fdef
InList(base, fdef) == \E k \in 1..Len(fdef) : fdef[k] = base

\* construct_unitary_F that writes the same two cells on both branches
construct_unitary_F_noflip(fdef, in_size) ==
    IF (in_size = <<>> \/ in_size[1] = 0) /\ Len(fdef) = 0 THEN NoGate
    ELSE
    LET size == IF in_size = <<>> \/ in_size[1] = 0 THEN Len(fdef[1]) ELSE in_size[1]
        reg_size == size + 1
        dummy_bases == Bases(size)
        Written(r, c) ==
            \E j \in 1..Len(dummy_bases) :
                LET base == dummy_bases[j]
                    i_col == 2 * (j - 1)
                IN  \/ r = IntOf(Append(base, 0)) /\ c = i_col
                    \/ r = IntOf(Append(base, 1)) /\ c = i_col + 1
        cmatrix == [e |-> Tup([r \in 1..Pow2(reg_size) |-> Tup([c \in 1..Pow2(reg_size) |->
                              IF Written(r - 1, c - 1) THEN 1 ELSE 0], Pow2(reg_size))],
                              Pow2(reg_size)),
                    s |-> 0]
    IN  MGate(cmatrix, reg_size)

\* construct_unitary_F(fdef, in_size).  in_size is <<>> for None and <<n>> for
\* the number n; `not in_size` holds for None and for 0.  The loop pairs the
\* j-th basis label with the column 2(j-1) and writes two cells of the zero
\* matrix; a cell is 1 at the end exactly when some iteration wrote it.
construct_unitary_F(fdef, in_size) ==
    IF (in_size = <<>> \/ in_size[1] = 0) /\ Len(fdef) = 0 THEN NoGate
    ELSE
    LET size == IF in_size = <<>> \/ in_size[1] = 0 THEN Len(fdef[1]) ELSE in_size[1]
        reg_size == size + 1
        dummy_bases == Bases(size)
        Written(r, c) ==
            \E j \in 1..Len(dummy_bases) :
                LET base == dummy_bases[j]
                    i_col == 2 * (j - 1)
                IN  IF InList(base, fdef)
                    THEN \/ r = IntOf(Append(base, 1)) /\ c = i_col
                         \/ r = IntOf(Append(base, 0)) /\ c = i_col + 1
                    ELSE \/ r = IntOf(Append(base, 0)) /\ c = i_col
                         \/ r = IntOf(Append(base, 1)) /\ c = i_col + 1
        cmatrix == [e |-> Tup([r \in 1..Pow2(reg_size) |-> Tup([c \in 1..Pow2(reg_size) |->
                              IF Written(r - 1, c - 1) THEN 1 ELSE 0], Pow2(reg_size))],
                              Pow2(reg_size)),
                    s |-> 0]
    IN  MGate(cmatrix, reg_size)

RECURSIVE Reverse(_)
Reverse(s) == IF Len(s) = 0 THEN <<>> ELSE Append(Reverse(Tail(s)), Head(s))

\* the lists a caller passes as fdef: the accepted L-bit strings, each once,
\* in ascending or in descending order
FdefLists(L) ==
    LET Asc(S) == SelectSeq(Bases(L), LAMBDA b : b \in S)
        All == {b : b \in {Bases(L)[j] : j \in 1..Pow2(L)}}
    IN  {Asc(S) : S \in SUBSET All} \cup {Reverse(Asc(S)) : S \in SUBSET All}

OracleArgs ==
    UNION {{[op |-> "args", L |-> L, fdef |-> f, in_size |-> z] :
               f \in FdefLists(L), z \in {<<>>, <<L>>}} : L \in 1..MaxL}

InitOracle ==
    /\ last \in OracleArgs
    /\ x = I
    /\ y = I
    /\ nops = 0
    /\ lz = NoGate
    /\ heap = <<>>
    /\ reg = 0
    /\ out = 0

\* the caller prepares the next oracle definition
NewOracleArgs ==
    /\ last.op = "oracle"
    /\ last' \in OracleArgs
    /\ UNCHANGED <<x, y, nops, lz, heap, reg, out>>

\* construct_unitary_F(fdef, in_size)
BuildOracle ==
    /\ last.op = "args"
    /\ LET g == construct_unitary_F(last.fdef, last.in_size)
       IN  /\ last' = [op |-> "oracle", L |-> last.L, fdef |-> last.fdef,
                       in_size |-> last.in_size, ret |-> g]
    /\ UNCHANGED <<x, y, nops, lz, heap, reg, out>>

NextOracle == NewOracleArgs \/ BuildOracle

SpecOracle == InitOracle /\ [][NextOracle]_vars

ArgSort(keys, tie) ==
    LET n == Len(keys)
        Before(j, i) ==
            \/ keys[j] < keys[i]
            \/ keys[j] = keys[i] /\ (IF tie = "asc" THEN j < i ELSE j > i)
        Rank(i) == 1 + Cardinality({j \in 1..n : Before(j, i)})
    IN  Tup([p \in 1..n |-> CHOOSE i \in 1..n : Rank(i) = p], n)

\* LazyGate.get_qbpos with qbpos[0] taken as the least significant bit
get_qbpos_lsbfirst(qbpos, base) ==
    SumTo([i \in 1..Len(qbpos) |-> Bit(base, qbpos[i]) * Pow2(i - 1)], Len(qbpos))

\* LazyGate.get_qbpos: bit qbpos[i] of base goes to bit len(qbpos)-i-1 of the
\* result (i counted from 0); the bits or-ed together are at different places
get_qbpos(qbpos, base) ==
    SumTo([i \in 1..Len(qbpos) |-> Bit(base, qbpos[i]) * Pow2(Len(qbpos) - i)], Len(qbpos))

\* LazyGate.get_spectator: bit specpos[i] of base goes to bit i of the result
get_spectator(specpos, base) ==
    SumTo([i \in 1..Len(specpos) |-> Bit(base, specpos[i]) * Pow2(i - 1)], Len(specpos))

InSeq(v, seq) == \E k \in 1..Len(seq) : seq[k] = v

Min(a, b) == IF a < b THEN a ELSE b

\* LazyGate.__init__(matrix, qbpos, qreg_size).  It checks nothing; the only
\* exception is the ValueError of 1 << q for a negative position q, raised by
\* get_qbpos for the first basis index.
LazyGate(matrix, qbpos, qreg_size, tie) ==
    LET msize == Pow2(Len(qbpos))
        qsize == Pow2(qreg_size)
        bases0 == Tup([p \in 1..qsize |-> p - 1], qsize)
        specpos == SelectSeq(Tup([p \in 1..qreg_size |-> p - 1], qreg_size),
                             LAMBDA q : ~InSeq(q, qbpos))
        order == ArgSort(Tup([p \in 1..qsize |-> get_spectator(specpos, bases0[p])], qsize), tie)
        bases1 == Tup([p \in 1..qsize |-> bases0[order[p]]], qsize)
        gbits == Tup([p \in 1..qsize |-> get_qbpos(qbpos, bases1[p])], qsize)
        bases2 == Tup([p \in 1..qsize |->
                     LET lo == ((p - 1) \div msize) * msize
                         hi == Min(lo + msize, qsize)
                         local == ArgSort(SubSeq(gbits, lo + 1, hi), tie)
                     IN  bases1[lo + local[p - lo]]], qsize)
    IN  IF \E i \in 1..Len(qbpos) : qbpos[i] < 0 THEN NoGate
        ELSE [ok |-> TRUE, matrix |-> matrix, msize |-> msize, qsize |-> qsize,
              bases |-> bases2, qbpos |-> qbpos, specpos |-> specpos,
              qreg_size |-> qreg_size]

\* LazyGate.apply that writes each block's result to the positions i..i+msize
\* of the block instead of the indices bases[i:i+msize]
LazyGate_apply_noscatter(self, qreg) ==
    LET len == Len(qreg.state.e)
        M == self.matrix
        Lo(p) == ((p - 1) \div self.msize) * self.msize
        Hi(p) == Min(Lo(p) + self.msize, self.qsize)
        BlockOK(p) ==
            /\ Cols(M) = Hi(p) - Lo(p)
            /\ Rows(M) = Hi(p) - Lo(p) \/ Rows(M) = 1
        Value(p) ==
            LET row == IF Rows(M) = 1 THEN 1 ELSE p - Lo(p)
            IN  SumTo([k \in 1..Cols(M) |-> M.e[row][k] * qreg.state.e[self.bases[Lo(p) + k] + 1]],
                      Cols(M))
    IN  IF \E p \in 1..self.qsize : self.bases[p] >= len \/ ~BlockOK(p) THEN Raised
        ELSE [ok |-> TRUE,
              qreg |-> QReg(qreg.nbits,
                  NormV([e |-> Tup([b \in 1..len |->
                                  IF b <= self.qsize THEN Value(b) ELSE 0], len),
                         s |-> M.s + qreg.state.s]))]

\* LazyGate.apply.  No size assertion.  Block by block: gather the amplitudes
\* at bases[i:i+msize] (IndexError for an index outside the state vector),
\* multiply (ValueError when the matrix has not as many columns), scatter to
\* the same indices (ValueError unless the product has one entry per index or
\* a single entry, which numpy broadcasts).  Indices no block names keep the
\* zero of np.zeros.
LazyGate_apply(self, qreg) ==
    LET len == Len(qreg.state.e)
        M == self.matrix
        Lo(p) == ((p - 1) \div self.msize) * self.msize
        Hi(p) == Min(Lo(p) + self.msize, self.qsize)
        BlockOK(p) ==
            /\ Cols(M) = Hi(p) - Lo(p)
            /\ Rows(M) = Hi(p) - Lo(p) \/ Rows(M) = 1
        Value(p) ==
            LET row == IF Rows(M) = 1 THEN 1 ELSE p - Lo(p)
            IN  SumTo([k \in 1..Cols(M) |-> M.e[row][k] * qreg.state.e[self.bases[Lo(p) + k] + 1]],
                      Cols(M))
    IN  IF \E p \in 1..self.qsize : self.bases[p] >= len \/ ~BlockOK(p) THEN Raised
        ELSE [ok |-> TRUE,
              qreg |-> QReg(qreg.nbits,
                  NormV([e |-> Tup([b \in 1..len |->
                                  IF \E p \in 1..self.qsize : self.bases[p] = b - 1
                                  THEN Value(CHOOSE p \in 1..self.qsize : self.bases[p] = b - 1)
                                  ELSE 0], len),
                         s |-> M.s + qreg.state.s]))]

\* ------------------------------------------------- applying gates: machine
\* The caller holds one gate of either variant in the slot lz, builds lazy
\* gates, takes predefined dense gates and applies the gate held to registers.

\* local matrices over m qubits
LocalMats(m) ==
    {g.matrix : g \in {h \in Predefined : h.qreg_size = m}}
        \cup (IF m = 0 THEN {eye(1)} ELSE {})
        \cup (IF m >= 2 THEN {kron(H.matrix, eye(Pow2(m - 1)))} ELSE {})

SeqsOver(S, lens) == UNION {[1..k -> S] : k \in lens}

Distinct(seq) == \A i, j \in 1..Len(seq) : seq[i] = seq[j] => i = j

InRange(seq, n) == \A i \in 1..Len(seq) : seq[i] \in 0..(n - 1)

\* target lists for an n-qubit register: every list of distinct positions of
\* the register, and lists that are too long, repeat a position or name a
\* position that is negative or beyond the register
QbposLists(n) ==
    {q \in SeqsOver(0..(n - 1), 0..n) : Distinct(q)}
        \cup SeqsOver((0 - 1)..n, 0..MaxBad)
        \cup {[i \in 1..(n + 1) |-> i - 1]}

Malformed(matrix, qbpos, qreg_size) ==
    \/ qreg_size < Len(qbpos)
    \/ ~InRange(qbpos, qreg_size)
    \/ ~Distinct(qbpos)
    \/ Rows(matrix) # Pow2(Len(qbpos))
    \/ Cols(matrix) # Pow2(Len(qbpos))

InitApply ==
    /\ lz = [kind |-> "MGate", g |-> I]
    /\ last = [op |-> "load"]
    /\ x = I
    /\ y = I
    /\ nops = 0
    /\ heap = <<>>
    /\ reg = 0
    /\ out = 0

\* LazyGate(matrix, qbpos, qreg_size), replacing a dense gate just taken
LazyConstruct ==
    \E n \in 1..MaxN, tie \in {"asc", "desc"} : \E qbpos \in QbposLists(n) :
        \E matrix \in LocalMats(Len(qbpos)) \cup {eye(Pow2(Len(qbpos) + 1))} :
            LET g == LazyGate(matrix, qbpos, n, tie)
            IN  /\ last.op = "load"
                /\ last' = [op |-> "lazy_init", matrix |-> matrix, qbpos |-> qbpos,
                            qreg_size |-> n, ret |-> g]
                /\ lz' = [kind |-> "LazyGate", g |-> g]
                /\ UNCHANGED <<x, y, nops, heap, reg, out>>

\* the caller takes one of the predefined dense gates
TakeDense ==
    /\ \E g \in Predefined : lz' = [kind |-> "MGate", g |-> g]
    /\ last' = [op |-> "load"]
    /\ UNCHANGED <<x, y, nops, heap, reg, out>>

\* gate.apply(qreg), dispatched on the variant of the gate; the call changes
\* neither the gate nor the register, so one application is drawn per gate
\* built or taken
Apply ==
    /\ lz.g.ok
    /\ last.op # "apply"
    /\ \E j \in 1..MaxN : \E R \in TestRegs(j) :
          /\ j - lz.g.qreg_size \in {0 - 1, 0, 1}
          /\ last' = [op |-> "apply", kind |-> lz.kind, gate |-> lz.g, qreg |-> R,
                      ret |-> IF lz.kind = "MGate" THEN MGate_apply(lz.g, R)
                              ELSE LazyGate_apply(lz.g, R)]
    /\ UNCHANGED <<x, y, nops, lz, heap, reg, out>>

NextApply == LazyConstruct \/ TakeDense \/ Apply

SpecApply == InitApply /\ [][NextApply]_vars

\* -------------------------------------------------- applying gates: claims
\* the bits of b at the positions P, P[1] the most significant
TKey(P, b) == SumTo([i \in 1..Len(P) |-> Bit(b, P[i]) * Pow2(Len(P) - i)], Len(P))

\* the 2^n x 2^n matrix that acts as U on the bits P of a basis index and as
\* the identity on the other bits
DenseEmbed(U, P, n) ==
    MGate([e |-> Tup([r \in 1..Pow2(n) |-> Tup([c \in 1..Pow2(n) |->
                    IF \A q \in 0..(n - 1) : InSeq(q, P) \/ Bit(r - 1, q) = Bit(c - 1, q)
                    THEN U.e[TKey(P, r - 1) + 1][TKey(P, c - 1) + 1]
                    ELSE 0], Pow2(n))], Pow2(n)),
           s |-> U.s], n)

\* the parallel composition g1 * g2 * ... of a list of dense gates
RECURSIVE Chain(_)
Chain(gs) ==
    IF Len(gs) = 1 THEN gs[1]
    ELSE MGate_mul(Chain(SubSeq(gs, 1, Len(gs) - 1)), gs[Len(gs)])

\* n one-qubit gates, U as factor number f (counted from 0), I elsewhere
SingleTarget(U, f, n) ==
    Chain(Tup([j \in 1..n |-> IF j = f + 1 THEN MGate(U, 1) ELSE I], n))

WellFormed(g) ==
    /\ g.ok
    /\ ~Malformed(g.matrix, g.qbpos, g.qreg_size)

LazyCase ==
    /\ last.op = "apply"
    /\ last.kind = "LazyGate"
    /\ WellFormed(last.gate)
    /\ last.qreg.nbits = last.gate.qreg_size

\* C1 as stated: on every register of its size a lazy gate gives the output
\* of the dense gate with U at the positions P; for a single target p that
\* dense gate is the product of n one-qubit gates with U as factor number p.
C1_LazyEqualsDenseFactorP ==
    LazyCase =>
        LET g == last.gate
        IN  /\ last.ret = MGate_apply(DenseEmbed(g.matrix, g.qbpos, g.qreg_size), last.qreg)
            /\ Len(g.qbpos) = 1 =>
                  last.ret = MGate_apply(SingleTarget(g.matrix, g.qbpos[1], g.qreg_size),
                                         last.qreg)

\* C1 as amended: a position q is bit q of the basis index counted from the
\* least significant bit, so for a single target p the dense gate is the
\* product of n one-qubit gates with U as factor number n-1-p; for any target
\* list P it is the gate acting as U on the bits P, P[0] most significant.
C1_LazyEqualsDense ==
    LazyCase =>
        LET g == last.gate
        IN  /\ last.ret.ok
            /\ last.ret = MGate_apply(DenseEmbed(g.matrix, g.qbpos, g.qreg_size), last.qreg)
            /\ Len(g.qbpos) = 1 =>
                  last.ret = MGate_apply(
                      SingleTarget(g.matrix, g.qreg_size - 1 - g.qbpos[1], g.qreg_size),
                      last.qreg)

C1_Witness ==
    /\ LazyCase
    /\ last.gate.qreg_size = 3
    /\ last.gate.qbpos = <<0>>
    /\ last.gate.matrix = H.matrix
    /\ last.qreg = QReg(3, BasisVec(3, 3))
    /\ last.ret = [ok |-> TRUE, qreg |-> QReg(3, [e |-> <<0, 0, 1, -1, 0, 0, 0, 0>>, s |-> 1])]

\* C6: apply on a register whose qubit count differs from the gate's fails,
\* for dense and for lazy gates.
C6_SizeMismatchFails ==
    (last.op = "apply" /\ last.qreg.nbits # last.gate.qreg_size) => ~last.ret.ok

\* C7: LazyGate(matrix, qbpos, qreg_size) fails when qreg_size < len(qbpos),
\* when a position lies outside [0, qreg_size), when a position repeats or
\* when the matrix dimension is not 2^len(qbpos).
C7_MalformedTargetsFail ==
    (last.op = "lazy_init" /\ Malformed(last.matrix, last.qbpos, last.qreg_size))
        => ~last.ret.ok

\* C10: for distinct in-range targets the table `bases` is a permutation of
\* 0..2^n-1; the indices of a block agree on the bits outside qbpos and their
\* target keys (qbpos[0] most significant) are 0, 1, ..., 2^m-1 in order.
C10_PermutationTable ==
    (last.op = "lazy_init" /\ InRange(last.qbpos, last.qreg_size) /\ Distinct(last.qbpos)) =>
        LET g == last.ret
            n == last.qreg_size
            m == Len(last.qbpos)
        IN  /\ g.ok
            /\ Len(g.bases) = Pow2(n)
            /\ \A b \in 0..(Pow2(n) - 1) :
                  Cardinality({p \in 1..Pow2(n) : g.bases[p] = b}) = 1
            /\ \A blk \in 0..(Pow2(n - m) - 1) : \A t \in 0..(Pow2(m) - 1) :
                  LET b == g.bases[blk * Pow2(m) + t + 1]
                      b0 == g.bases[blk * Pow2(m) + 1]
                  IN  /\ TKey(last.qbpos, b) = t
                      /\ \A q \in 0..(n - 1) :
                            InSeq(q, last.qbpos) \/ Bit(b, q) = Bit(b0, q)

C10_Witness ==
    /\ last.op = "lazy_init"
    /\ last.qreg_size = 3
    /\ last.qbpos = <<0, 2>>
    /\ last.ret.ok
    /\ last.ret.bases = <<0, 4, 1, 5, 2, 6, 3, 7>>

\* ------------------------------------------------- closed-form appliers
\* LazyCNOT.dot: a copy of the state with its last two entries exchanged;
\* new_state[-2] raises IndexError on a one-entry state
LazyCNOT_dot(state) ==
    LET n == Len(state.e)
    IN  IF n < 2 THEN Raised
        ELSE [ok |-> TRUE,
              v  |-> [e |-> Tup([i \in 1..n |-> IF i = n THEN state.e[n - 1]
                                                 ELSE IF i = n - 1 THEN state.e[n]
                                                 ELSE state.e[i]], n),
                      s |-> state.s]]

\* LazyNOT.dot: qreg_state[::-1] on an ndarray is a view, the same buffer read
\* in the opposite direction
LazyNOT_dot(ref) == [buf |-> ref.buf, rev |-> ~ref.rev]

\* ----------------------------------------------------- storage: machine
\* heap is the list of live array buffers.  An ndarray is a reference
\* [buf, rev] to a buffer, read backwards when rev.  reg is the caller's
\* register (its state an ndarray), out the ndarray the last call returned.
\* Buffers no reference reaches are dropped as part of each step.

NoRef == [buf |-> 0, rev |-> FALSE]

Deref(h, ref) == IF ref.rev THEN [e |-> Reverse(h[ref.buf].e), s |-> h[ref.buf].s]
                 ELSE h[ref.buf]

\* the lazy gates of the storage machine, for an n-qubit register
HeapLazyGates(n) ==
    {LazyGate(NOT.matrix, <<0>>, n, "asc"), LazyGate(H.matrix, <<n - 1>>, n, "asc")}

InitHeap ==
    /\ \E n \in 1..MaxN : \E b \in 0..(Pow2(n) - 1) :
          /\ heap = <<BasisVec(n, b)>>
          /\ reg = QReg(n, [buf |-> 1, rev |-> FALSE])
    /\ out = NoRef
    /\ nops = 0
    /\ last = [op |-> "load"]
    /\ lz = [kind |-> "MGate", g |-> I]
    /\ x = I
    /\ y = I

\* the state of the heap after a call that returned the fresh array v
Fresh(v) ==
    /\ heap' = <<heap[reg.state.buf], v>>
    /\ reg' = QReg(reg.nbits, [buf |-> 1, rev |-> reg.state.rev])
    /\ out' = [buf |-> 2, rev |-> FALSE]

\* MGate.apply(qreg) for a dense gate over the register's qubits
CallMGateApply ==
    \E g \in {h \in Predefined : h.qreg_size = reg.nbits} :
        /\ lz' = [kind |-> "MGate", g |-> g]
        /\ nops < MaxCalls
        /\ nops' = nops + 1
        /\ last' = [op |-> "MGate.apply", before |-> Deref(heap, reg.state), gate |-> lz']
        /\ Fresh(MGate_apply(g, QReg(reg.nbits, Deref(heap, reg.state))).qreg.state)
        /\ UNCHANGED <<x, y>>

\* LazyGate.apply(qreg) for a lazy gate over the register's qubits
CallLazyGateApply ==
    \E g \in HeapLazyGates(reg.nbits) :
        /\ lz' = [kind |-> "LazyGate", g |-> g]
        /\ nops < MaxCalls
        /\ nops' = nops + 1
        /\ last' = [op |-> "LazyGate.apply", before |-> Deref(heap, reg.state), gate |-> lz']
        /\ Fresh(LazyGate_apply(g, QReg(reg.nbits, Deref(heap, reg.state))).qreg.state)
        /\ UNCHANGED <<x, y>>

\* LazyCNOT(ncontrols).dot(qreg.state)
CallLazyCNOTDot ==
    /\ nops < MaxCalls
    /\ nops' = nops + 1
    /\ last' = [op |-> "LazyCNOT.dot", before |-> Deref(heap, reg.state), gate |-> lz]
    /\ Fresh(LazyCNOT_dot(Deref(heap, reg.state)).v)
    /\ UNCHANGED <<x, y, lz>>

\* LazyNOT(nbits).dot(qreg.state)
CallLazyNOTDot ==
    /\ nops < MaxCalls
    /\ nops' = nops + 1
    /\ last' = [op |-> "LazyNOT.dot", before |-> Deref(heap, reg.state), gate |-> lz]
    /\ heap' = <<heap[reg.state.buf]>>
    /\ reg' = QReg(reg.nbits, [buf |-> 1, rev |-> reg.state.rev])
    /\ out' = LazyNOT_dot(reg'.state)
    /\ UNCHANGED <<x, y, lz>>

\* the caller writes one amplitude of the array the last call returned
WriteOut ==
    /\ out # NoRef
    /\ last.op # "write"
    /\ \E i \in 1..Len(heap[out.buf].e) :
          LET at == IF out.rev THEN Len(heap[out.buf].e) + 1 - i ELSE i
          IN  heap' = [heap EXCEPT ![out.buf].e[at] = 7]
    /\ last' = [op |-> "write", before |-> Deref(heap, reg.state), gate |-> lz]
    /\ UNCHANGED <<x, y, nops, lz, reg, out>>

\* the caller makes the returned array the state of its register
Rebind ==
    /\ out # NoRef
    /\ heap' = <<heap[out.buf]>>
    /\ reg' = QReg(reg.nbits, [buf |-> 1, rev |-> out.rev])
    /\ out' = NoRef
    /\ last' = [op |-> "load"]
    /\ UNCHANGED <<x, y, nops, lz>>

NextHeap ==
    \/ CallMGateApply
    \/ CallLazyGateApply
    \/ CallLazyCNOTDot
    \/ CallLazyNOTDot
    \/ WriteOut
    \/ Rebind

SpecHeap == InitHeap /\ [][NextHeap]_vars

HeapCalls == {"MGate.apply", "LazyGate.apply", "LazyCNOT.dot", "LazyNOT.dot"}

\* C9: a call of MGate.apply, LazyGate.apply, LazyCNOT.dot or LazyNOT.dot
\* leaves the input state vector and the gate as they were and returns an
\* array in a buffer of its own, so a later write to the returned array does
\* not change the input.
C9_ApplyIsPure ==
    /\ last.op \in HeapCalls =>
          /\ Deref(heap, reg.state) = last.before
          /\ lz = last.gate
          /\ out.buf # reg.state.buf
    /\ last.op = "write" => Deref(heap, reg.state) = last.before

====
